---------------------------- MODULE Spec2Model ----------------------------
(***************************************************************************)
(* A model of the local-build resolution of zcash-artifacts:               *)
(* ArtifactResolver::resolve_local_build (crates/zcash-artifacts/src/      *)
(* lib.rs) with the cache behaviour documented in registry.rs' sibling     *)
(* cache.rs.  Several resolutions run concurrently against one cache root  *)
(* and one source repository.                                              *)
(***************************************************************************)
EXTENDS Integers, Sequences, FiniteSets, TLC

(***************************************************************************)
(* Bounds of the model.                                                    *)
(***************************************************************************)
NumProcs == 2
MaxTime == 1

Procs == 1..NumProcs
Times == 0..MaxTime

None == <<>>

(***************************************************************************)
(* The source repository.  git_resolve_commit maps a refspec to a full     *)
(* SHA; the worktree a resolution finds is clean, has an edit of a tracked *)
(* file, or has that edit and an untracked file besides (the user edits    *)
(* it between calls).                                                      *)
(***************************************************************************)
Refspecs == {"HEAD"}
Worktrees == {"clean", "edit", "edit+untracked"}

git_resolve_commit(refspec) ==
    IF refspec = "HEAD" THEN <<"a", "1">> ELSE <<"b", "2">>

git_is_dirty(wt) == wt # "clean"

\* A digest of the tracked contents, and of the untracked ones on request.
hash_worktree(wt, hash_untracked) ==
    IF wt = "edit+untracked" /\ hash_untracked THEN <<"e", "f">> ELSE <<"e", "e">>

Commits == {git_resolve_commit(r) : r \in Refspecs}
Hashes == {hash_worktree(w, h) : w \in Worktrees \ {"clean"}, h \in BOOLEAN}

GitPolicies ==
    {[tag |-> "RequireClean", hash_untracked |-> FALSE]}
    \cup {[tag |-> "AllowDirty", hash_untracked |-> h] : h \in BOOLEAN}

\* match policy { RequireClean => (false, false), AllowDirty{h} => (true, h) }
PolicyFlags(policy) ==
    IF policy.tag = "RequireClean"
    THEN [allow_dirty |-> FALSE, hash_untracked |-> FALSE]
    ELSE [allow_dirty |-> TRUE, hash_untracked |-> policy.hash_untracked]

(***************************************************************************)
(* The cache key: "zcashd|<sha>[+h]|host|v1", a string, modelled as the    *)
(* sequence of its pieces' characters.                                     *)
(***************************************************************************)
ServiceName == <<"z", "c", "a", "s", "h", "d">>
BuilderSchema == 1
SchemaSuffix == <<"|", "v", ToString(BuilderSchema)>>
HostTriple == <<"l", "x">>

build_key(commit, worktree_hash, host) ==
    ServiceName \o <<"|">> \o commit
        \o (IF worktree_hash = None THEN <<>> ELSE <<"+">> \o worktree_hash)
        \o <<"|">> \o host \o SchemaSuffix

AllKeys == {build_key(c, h, HostTriple) : c \in Commits, h \in {None} \cup Hashes}

(***************************************************************************)
(* The cache layout under cache_root.                                      *)
(***************************************************************************)
LogName(ts) == ToString(ts)

cache_paths(service, key) ==
    [root |-> <<service, key>>,
     out  |-> <<service, key, "out">>,
     logs |-> <<service, key, "logs">>,
     meta |-> <<service, key, "meta">>]

OutBin(key) == cache_paths("zcashd", key).out \o <<"zcashd">>
TmpBin(key) == cache_paths("zcashd", key).out \o <<".tmp">>
LogPath(key, ts) == cache_paths("zcashd", key).logs \o <<LogName(ts)>>
MetaPath(key) == cache_paths("zcashd", key).meta \o <<"META.json">>
\* (variant) one lock file for the whole cache root
LockPathShared(key) == <<"zcashd", None, ".lock">>

LockPath(key) == cache_paths("zcashd", key).root \o <<".lock">>

KeyPaths(key) ==
    {cache_paths("zcashd", key).root, cache_paths("zcashd", key).out,
     cache_paths("zcashd", key).logs, cache_paths("zcashd", key).meta,
     OutBin(key), TmpBin(key), MetaPath(key), LockPath(key)}
    \cup {LogPath(key, ts) : ts \in Times}

AllPaths == UNION {KeyPaths(k) : k \in AllKeys}
\* The files atomic_copy writes.
CopyPaths == {TmpBin(k) : k \in AllKeys} \cup {OutBin(k) : k \in AllKeys}
LockPaths == {LockPath(k) : k \in AllKeys}

(***************************************************************************)
(* Filesystem nodes.                                                       *)
(***************************************************************************)
Absent == [kind |-> "absent", complete |-> FALSE, exec |-> FALSE]
Dir == [kind |-> "dir", complete |-> FALSE, exec |-> FALSE]
File(complete, exec) == [kind |-> "file", complete |-> complete, exec |-> exec]

\* Regular file with an exec bit set.
looks_executable(node) == node.kind = "file" /\ node.exec

(***************************************************************************)
(* State.                                                                  *)
(***************************************************************************)
VARIABLES
    repoBin,     \* the node at repo.join(expected_output)
    now,         \* the clock now_ts() reads
    fs,          \* the nodes under cache_root, by path
    metaDoc,     \* the provenance document of each key: {} or {Meta}
    locks,       \* the holders of each lock path
    pc,          \* where each resolution stands
    req,         \* the request each resolution was called with
    idn,         \* commit, dirty and worktree_hash as each resolution read them
    logTs,       \* the timestamp in each resolution's log_path
    result,      \* what each resolution returned
    builds,      \* the number of run_build_script calls of each resolution
    startValid,  \* whether out/zcashd of the key looked executable when the key was computed
    seen,        \* what the resolution's last cache check found
    doneAtCall,  \* the resolutions that had returned Ok when this one was called
    keyIn,       \* two requests whose keys are derived (key derivation alone)
    keyOut,      \* the keys derived for them
    expected_output,  \* the expected_output the requests are made with
    copied,      \* for each temp file and out_bin: the repo_bin node it is a copy of
    version_str, \* what each resolution's version probe gave
    registry,    \* the resolver's registry: None, or Some(registry)
    local_fs,    \* what fs::metadata gives for each path a LocalPath may name
    local_src,   \* the LocalPath source last resolved: None, or Some(path)
    local_result \* what that resolution returned

localVars == <<local_fs, local_src, local_result>>

vars == <<repoBin, now, fs, metaDoc, locks, pc, req, idn, logTs,
          result, builds, startValid, seen, doneAtCall, keyIn, keyOut,
                   expected_output, registry, localVars, copied, version_str>>

\* registry: Option<Registry>.  ArtifactResolver::new leaves None;
\* with_registry gives Some of Registry::empty(), which has no tool, or of
\* Registry::default(), which has zcashd with its build recipe.
Registries == {None, <<"empty">>, <<"builtins">>}

\* The registry has a ToolSpec for zcashd whose build is Some.
has_build_recipe(reg) == reg # None /\ reg[1] = "builtins"

\* expected_output: Option<&Path>, None or a path the caller names.
ExpectedOutputs == {None, <<"bin/zcashd">>}

\* repo.join(expected_output.unwrap_or("src/zcashd"))
RepoBinPath ==
    <<"repo", IF expected_output = None THEN "src/zcashd" ELSE expected_output[1]>>

Pending == [tag |-> "Pending", err |-> "", path |-> None, log |-> None]
Ok(path) == [tag |-> "Ok", err |-> "", path |-> path, log |-> None]
Err(kind) == [tag |-> "Err", err |-> kind, path |-> None, log |-> None]
ErrPath(kind, path) == [tag |-> "Err", err |-> kind, path |-> path, log |-> None]
ErrLog(kind, log) == [tag |-> "Err", err |-> kind, path |-> None, log |-> log]

(***************************************************************************)
(* Local paths.  resolve_local_path stats the path the caller names and    *)
(* tests the metadata (unix build: the permission bits are tested).        *)
(***************************************************************************)
LocalPaths == {<<"opt", "zcashd">>, <<"tmp", "zcashd">>}

\* Permission bits: 0o644, 0o755, 0o100, 0o600.
Modes == {420, 493, 64, 384}

\* 0o111, the three exec bits
ExecBits == 73

\* fs::metadata(path): an io::Error (nothing at the path), or the metadata of
\* a regular file or of a directory.
StatError == [found |-> FALSE, is_file |-> FALSE, mode |-> 0]
Metadata(is_file, mode) == [found |-> TRUE, is_file |-> is_file, mode |-> mode]
Metadatas == {StatError} \cup {Metadata(f, m) : f \in BOOLEAN, m \in Modes}

\* a & b
RECURSIVE BitAnd(_, _)
BitAnd(a, b) ==
    IF a = 0 \/ b = 0 THEN 0
    ELSE (a % 2) * (b % 2) + 2 * BitAnd(a \div 2, b \div 2)

\* todo!()
Panic == [tag |-> "Panic", err |-> "", path |-> None, log |-> None]

resolve_local_path(path, md) ==
    IF ~md.found THEN Err("Fs")
    ELSE IF ~md.is_file THEN ErrPath("NotFound", path)
    ELSE IF BitAnd(md.mode, ExecBits) = 0 THEN ErrPath("NotExecutable", path)
    ELSE Ok(path)

\* No LocalPath source has been resolved.
NoLocal ==
    /\ local_fs = [path \in LocalPaths |-> StatError]
    /\ local_src = None
    /\ local_result = Pending

NoReq == [refspec |-> None, policy |-> [tag |-> "", hash_untracked |-> FALSE],
          allow_build |-> FALSE]
NoIdn == [commit |-> None, dirty |-> FALSE, worktree_hash |-> None]

Requests ==
    [refspec : {None} \cup {<<r>> : r \in Refspecs \ {"HEAD"}},
     policy : GitPolicies,
     allow_build : BOOLEAN]

\* refspec.unwrap_or("HEAD")
RefspecOf(r) == IF r.refspec = None THEN "HEAD" ELSE r.refspec[1]

\* (variant) the worktree hash left out of the identity
IdentityNoHash(r, wt) ==
    [commit |-> git_resolve_commit(RefspecOf(r)),
     dirty |-> git_is_dirty(wt),
     worktree_hash |-> None]

\* The identity lines 189..205 compute from a request and the repository.
Identity(r, wt) ==
    LET dirty == git_is_dirty(wt)
        flags == PolicyFlags(r.policy)
    IN [commit |-> git_resolve_commit(RefspecOf(r)),
        dirty |-> dirty,
        worktree_hash |-> IF dirty /\ flags.allow_dirty
                          THEN hash_worktree(wt, flags.hash_untracked)
                          ELSE None]

KeyOfIdn(i) == build_key(i.commit, i.worktree_hash, HostTriple)
KeyOf(p) == KeyOfIdn(idn[p])

Holds(p) == \E l \in LockPaths : p \in locks[l]

\* The lock guard is dropped when resolve_local_build returns.
DropLock(p) == [l \in LockPaths |-> locks[l] \ {p}]

InitCache ==
    /\ repoBin = Absent
    /\ now = 0
    /\ fs = [path \in AllPaths |-> Absent]
    /\ metaDoc = [k \in AllKeys |-> {}]
    /\ locks = [l \in LockPaths |-> {}]
    /\ pc = [p \in Procs |-> "idle"]
    /\ req = [p \in Procs |-> NoReq]
    /\ idn = [p \in Procs |-> NoIdn]
    /\ logTs = [p \in Procs |-> 0]
    /\ result = [p \in Procs |-> Pending]
    /\ builds = [p \in Procs |-> 0]
    /\ startValid = [p \in Procs |-> FALSE]
    /\ seen = [p \in Procs |-> "nothing"]
    /\ doneAtCall = [p \in Procs |-> {}]
    /\ copied = [path \in CopyPaths |-> Absent]
    /\ version_str = [p \in Procs |-> None]

(***************************************************************************)
(* Key derivation alone: the key line 208 derives for a request.  The      *)
(* service a Build request names, its job count and the log timestamp are  *)
(* at hand when the key is built; build_key is given the commit, the       *)
(* worktree hash and the host.                                             *)
(***************************************************************************)
Services == {"zcashd", "zebrad"}
Platforms == {<<"l", "x">>, <<"m", "a">>}
KeyCommits == {<<"a", "1">>, <<"b", "2">>}
KeyHashes == {<<"e", "e">>, <<"e", "f">>}

KeyRequests ==
    [service : Services,
     commit : KeyCommits,
     worktree_hash : {None} \cup KeyHashes,
     platform : Platforms,
     jobs : {2, 8},
     log_ts : Times]

NoKeyRequest ==
    [service |-> "", commit |-> None, worktree_hash |-> None, platform |-> None,
     jobs |-> 0, log_ts |-> 0]

derive_key(x) == build_key(x.commit, x.worktree_hash, x.platform)

Init ==
    /\ InitCache
    /\ NoLocal
    /\ expected_output \in ExpectedOutputs
    /\ registry = <<"builtins">>
    /\ keyIn = <<NoKeyRequest, NoKeyRequest>>
    /\ keyOut = <<None, None>>

InitKey ==
    /\ InitCache
    /\ NoLocal
    /\ expected_output = None
    /\ registry = <<"builtins">>
    /\ keyIn \in KeyRequests \X KeyRequests
    /\ keyOut = <<None, None>>

DeriveKeys ==
    /\ keyOut = <<None, None>>
    /\ keyOut' = <<derive_key(keyIn[1]), derive_key(keyIn[2])>>
    /\ UNCHANGED <<repoBin, now, fs, metaDoc, locks, pc, req, idn, logTs, result,
                   builds, startValid, seen, doneAtCall, keyIn,
                   expected_output, registry, localVars, copied, version_str>>

\* (variant) an error return that leaves the lock held
FailKeepLock(p, e) ==
    /\ pc' = [pc EXCEPT ![p] = "error"]
    /\ result' = [result EXCEPT ![p] = e]
    /\ UNCHANGED locks

\* Return with an error: the result is set and the lock guard, if any, dropped.
Fail(p, e) ==
    /\ pc' = [pc EXCEPT ![p] = "error"]
    /\ result' = [result EXCEPT ![p] = e]
    /\ locks' = DropLock(p)

\* (variant) an Ok return that leaves the lock held
ReturnKeepLock(p, path) ==
    /\ pc' = [pc EXCEPT ![p] = "done"]
    /\ result' = [result EXCEPT ![p] = Ok(path)]
    /\ UNCHANGED locks

\* Return Ok(ResolvedArtifact { path }).
Return(p, path) ==
    /\ pc' = [pc EXCEPT ![p] = "done"]
    /\ result' = [result EXCEPT ![p] = Ok(path)]
    /\ locks' = DropLock(p)

\* std::fs::create_dir_all(dir): dir and its missing ancestors under cache_root.
create_dir_all(f, dir) ==
    [path \in AllPaths |->
        IF /\ Len(path) <= Len(dir)
           /\ path = SubSeq(dir, 1, Len(path))
           /\ f[path].kind = "absent"
        THEN Dir ELSE f[path]]

\* (variant) the policy check left out
DirtyRefusedNever(r, i) == FALSE

\* if dirty && !allow_dirty { return Err(BuildError::DirtyWorktree) }
DirtyRefused(r, i) == i.dirty /\ ~PolicyFlags(r.policy).allow_dirty

(***************************************************************************)
(* resolve_local_build, lines 182..217: the build switch, the git state,   *)
(* the dirty policy, the key and the out/ and logs/ directories.  The      *)
(* outcome for request r on worktree wt and cache f: the error returned    *)
(* ("" for none), the git state read, whether the key was computed, and    *)
(* the cache as left.                                                      *)
(***************************************************************************)
\* (variant) the directories created before the policy check
ResolveIdentityMkdirFirst(r, wt, fault, f) ==
    LET i == Identity(r, wt)
        paths == cache_paths("zcashd", KeyOfIdn(i))
        made == create_dir_all(create_dir_all(f, paths.out), paths.logs)
    IN IF ~r.allow_build
       THEN [err |-> "DisabledFeature", idn |-> NoIdn, key |-> FALSE, fs |-> f]
       ELSE IF fault = "git"
       THEN [err |-> "Git", idn |-> NoIdn, key |-> FALSE, fs |-> f]
       ELSE IF fault = "mkdir_out"
       THEN [err |-> "Fs", idn |-> i, key |-> TRUE, fs |-> f]
       ELSE IF fault = "mkdir_logs"
       THEN [err |-> "Fs", idn |-> i, key |-> TRUE,
             fs |-> create_dir_all(f, paths.out)]
       ELSE IF DirtyRefused(r, i)
       THEN [err |-> "DirtyWorktree", idn |-> i, key |-> FALSE, fs |-> made]
       ELSE [err |-> "", idn |-> i, key |-> TRUE, fs |-> made]

ResolveIdentity(r, wt, fault, f) ==
    LET i == Identity(r, wt)
        paths == cache_paths("zcashd", KeyOfIdn(i))
    IN IF ~r.allow_build
       THEN [err |-> "DisabledFeature", idn |-> NoIdn, key |-> FALSE, fs |-> f]
       ELSE IF fault = "git"
       THEN [err |-> "Git", idn |-> NoIdn, key |-> FALSE, fs |-> f]
       ELSE IF DirtyRefused(r, i)
       THEN [err |-> "DirtyWorktree", idn |-> i, key |-> FALSE, fs |-> f]
       ELSE IF fault = "mkdir_out"
       THEN [err |-> "Fs", idn |-> i, key |-> TRUE, fs |-> f]
       ELSE IF fault = "mkdir_logs"
       THEN [err |-> "Fs", idn |-> i, key |-> TRUE,
             fs |-> create_dir_all(f, paths.out)]
       ELSE [err |-> "", idn |-> i, key |-> TRUE,
             fs |-> create_dir_all(create_dir_all(f, paths.out), paths.logs)]

Identify(p) ==
    /\ pc[p] = "idle"
    /\ \E r \in Requests, wt \in Worktrees,
          fault \in {"none", "git", "mkdir_out", "mkdir_logs"} :
        LET o == ResolveIdentity(r, wt, fault, fs)
        IN /\ req' = [req EXCEPT ![p] = r]
           /\ idn' = [idn EXCEPT ![p] = o.idn]
           /\ fs' = o.fs
           /\ startValid' = [startValid EXCEPT
                  ![p] = o.key /\ looks_executable(fs[OutBin(KeyOfIdn(o.idn))])]
           /\ IF o.err = ""
              THEN /\ pc' = [pc EXCEPT ![p] = "cachecheck"]
                   /\ UNCHANGED <<result, locks>>
              ELSE Fail(p, Err(o.err))
    /\ doneAtCall' = [doneAtCall EXCEPT ![p] = {q \in Procs : pc[q] = "done"}]
    /\ UNCHANGED <<repoBin, now, metaDoc, logTs, builds, seen, keyIn, keyOut,
                   expected_output, registry, localVars, copied, version_str>>

(***************************************************************************)
(* Lines 219..222: the pre-lock cache check.                               *)
(***************************************************************************)
\* (variant) the pre-lock check left out
PreLockHitNever(p) == FALSE

PreLockHit(p) == looks_executable(fs[OutBin(KeyOf(p))])

CacheCheck(p) ==
    /\ pc[p] = "cachecheck"
    /\ \E fault \in BOOLEAN :
        IF fault
        THEN Fail(p, Err("Fs")) /\ UNCHANGED seen
        ELSE IF PreLockHit(p)
        THEN /\ Return(p, OutBin(KeyOf(p)))
             /\ seen' = [seen EXCEPT ![p] = "pre-hit"]
        ELSE /\ pc' = [pc EXCEPT ![p] = "preflight"]
             /\ seen' = [seen EXCEPT ![p] = "pre-miss"]
             /\ UNCHANGED <<result, locks>>
    /\ UNCHANGED <<repoBin, now, fs, metaDoc, req, idn, logTs, builds,
                   startValid,
                   doneAtCall, keyIn, keyOut,
                   expected_output, registry, localVars, copied, version_str>>

(***************************************************************************)
(* Lines 224..236: preflight_tools.                                        *)
(***************************************************************************)
Preflight(p) ==
    /\ pc[p] = "preflight"
    /\ \E tools_present \in BOOLEAN :
        IF tools_present
        THEN /\ pc' = [pc EXCEPT ![p] = "locking"]
             /\ UNCHANGED <<result, locks>>
        ELSE Fail(p, Err("PreflightMissingTools"))
    /\ UNCHANGED <<repoBin, now, fs, metaDoc, req, idn, logTs, builds,
                   startValid, seen,
                   doneAtCall, keyIn, keyOut,
                   expected_output, registry, localVars, copied, version_str>>

(***************************************************************************)
(* Line 238: acquire_lock(paths.root.join(".lock")), blocking while        *)
(* another resolution holds that lock file.                                *)
(***************************************************************************)
\* (variant) a lock that does not exclude a second holder
lock_acquired_shared(p) ==
    /\ locks' = [locks EXCEPT ![LockPath(KeyOf(p))] = @ \cup {p}]
    /\ fs' = [fs EXCEPT ![LockPath(KeyOf(p))] = File(TRUE, FALSE)]
    /\ pc' = [pc EXCEPT ![p] = "recheck"]
    /\ UNCHANGED result

\* The lock is taken once no resolution holds it.
lock_acquired(p) ==
    /\ locks[LockPath(KeyOf(p))] = {}
    /\ locks' = [locks EXCEPT ![LockPath(KeyOf(p))] = {p}]
    /\ fs' = [fs EXCEPT ![LockPath(KeyOf(p))] = File(TRUE, FALSE)]
    /\ pc' = [pc EXCEPT ![p] = "recheck"]
    /\ UNCHANGED result

\* acquire_lock(..)?: the lock file cannot be opened or locked.
lock_failed(p) ==
    /\ Fail(p, Err("Lock"))
    /\ UNCHANGED fs

AcquireLock(p) ==
    /\ pc[p] = "locking"
    /\ lock_acquired(p) \/ lock_failed(p)
    /\ UNCHANGED <<repoBin, now, metaDoc, req, idn, logTs, builds,
                   startValid, seen,
                   doneAtCall, keyIn, keyOut,
                   expected_output, registry, localVars, copied, version_str>>

(***************************************************************************)
(* Lines 240..246: the post-lock re-check and, on a miss, the call of      *)
(* run_build_script with a log file named from now_ts().                   *)
(***************************************************************************)
\* (variant) the post-lock re-check left out
PostLockHitNever(p) == FALSE

PostLockHit(p) == looks_executable(fs[OutBin(KeyOf(p))])

Recheck(p) ==
    /\ pc[p] = "recheck"
    /\ \E fault \in BOOLEAN, ts \in now..MaxTime :
        IF fault
        THEN Fail(p, Err("Fs")) /\ UNCHANGED <<now, fs, logTs, builds, seen>>
        ELSE IF PostLockHit(p)
        THEN /\ Return(p, OutBin(KeyOf(p)))
             /\ seen' = [seen EXCEPT ![p] = "post-hit"]
             /\ UNCHANGED <<now, fs, logTs, builds>>
        ELSE /\ seen' = [seen EXCEPT ![p] = "post-miss"]
             /\ now' = ts
             /\ logTs' = [logTs EXCEPT ![p] = ts]
             /\ builds' = [builds EXCEPT ![p] = @ + 1]
             /\ fs' = [fs EXCEPT ![LogPath(KeyOf(p), ts)] = File(TRUE, FALSE)]
             /\ pc' = [pc EXCEPT ![p] = "building"]
             /\ UNCHANGED <<result, locks>>
    /\ UNCHANGED <<repoBin, metaDoc, req, idn, startValid,
                   doneAtCall, keyIn, keyOut,
                   expected_output, registry, localVars, copied, version_str>>

(***************************************************************************)
(* Line 246: run_build_script returns.  A failed script leaves the         *)
(* expected output as it was or removes it; a script that reports success  *)
(* leaves an executable there, or nothing, or a file that is not           *)
(* executable.                                                             *)
(***************************************************************************)
\* (variant) the failure returned without the log path
OnScriptFailedNoLog(p) == Fail(p, Err("ScriptFailed"))

\* (variant) a failed build is tried again under the same lock
OnScriptFailedRetry(p) ==
    /\ pc' = [pc EXCEPT ![p] = "recheck"]
    /\ UNCHANGED <<result, locks>>

\* run_build_script(..)?: the failure is returned, with the log path.
OnScriptFailed(p) == Fail(p, ErrLog("ScriptFailed", LogPath(KeyOf(p), logTs[p])))

BuildFinish(p) ==
    /\ pc[p] = "building"
    /\ \/ /\ repoBin' \in {repoBin, Absent}
          /\ OnScriptFailed(p)
       \/ /\ repoBin' \in {File(TRUE, TRUE), File(TRUE, FALSE), Absent}
          /\ pc' = [pc EXCEPT ![p] = "validating"]
          /\ UNCHANGED <<result, locks>>
    /\ UNCHANGED <<now, fs, metaDoc, req, idn, logTs, builds, startValid, seen,
                   doneAtCall, keyIn, keyOut,
                   expected_output, registry, localVars, copied, version_str>>

(***************************************************************************)
(* Lines 248..251: the expected output must look executable.               *)
(***************************************************************************)
\* (variant) the error returned without the expected path
OnMissingOutputNoPath(p) == Fail(p, Err("MissingOutput"))

\* return Err(BuildError::MissingOutput { expected: repo_bin })
OnMissingOutput(p) == Fail(p, ErrPath("MissingOutput", RepoBinPath))

Validate(p) ==
    /\ pc[p] = "validating"
    /\ \E fault \in BOOLEAN :
        IF fault
        THEN Fail(p, Err("Fs"))
        ELSE IF ~looks_executable(repoBin)
        THEN OnMissingOutput(p)
        ELSE /\ pc' = [pc EXCEPT ![p] = "copying"]
             /\ UNCHANGED <<result, locks>>
    /\ UNCHANGED <<repoBin, now, fs, metaDoc, req, idn, logTs, builds,
                   startValid, seen,
                   doneAtCall, keyIn, keyOut,
                   expected_output, registry, localVars, copied, version_str>>

(***************************************************************************)
(* Line 253: atomic_copy(&repo_bin, &out_bin), temp file + rename.  The    *)
(* copy is written under a temporary name, and may or may not carry the    *)
(* source's exec bit; then the temporary file is renamed over out_bin.     *)
(***************************************************************************)
\* (variant) the copy written straight to out_bin
CopyInPlace(key) == OutBin(key)

copy_target(key) == TmpBin(key)

CopyWrite(p) ==
    /\ pc[p] = "copying"
    /\ \/ /\ repoBin.kind = "file"
          /\ \E x \in BOOLEAN :
                fs' = [fs EXCEPT ![copy_target(KeyOf(p))] = File(FALSE, x)]
          /\ copied' = [copied EXCEPT ![copy_target(KeyOf(p))] = repoBin]
          /\ pc' = [pc EXCEPT ![p] = "renaming"]
          /\ UNCHANGED <<result, locks>>
       \/ /\ Fail(p, Err("Fs"))
          /\ UNCHANGED <<fs, copied>>
    /\ UNCHANGED <<repoBin, now, metaDoc, req, idn, logTs, builds,
                   startValid, seen, doneAtCall, keyIn, keyOut,
                   expected_output, registry, localVars, version_str>>

CopyRename(p) ==
    /\ pc[p] = "renaming"
    /\ \/ /\ fs' = [fs EXCEPT
                       ![copy_target(KeyOf(p))] = Absent,
                       ![OutBin(KeyOf(p))] =
                           File(TRUE, fs[copy_target(KeyOf(p))].exec)]
          /\ copied' = [copied EXCEPT
                           ![copy_target(KeyOf(p))] = Absent,
                           ![OutBin(KeyOf(p))] = copied[copy_target(KeyOf(p))]]
          /\ pc' = [pc EXCEPT ![p] = "chmod"]
          /\ UNCHANGED <<result, locks>>
       \/ /\ Fail(p, Err("Fs"))
          /\ UNCHANGED <<fs, copied>>
    /\ UNCHANGED <<repoBin, now, metaDoc, req, idn, logTs, builds,
                   startValid, seen, doneAtCall, keyIn, keyOut,
                   expected_output, registry, localVars, version_str>>

(***************************************************************************)
(* Line 254: chmod_exec(&out_bin).                                         *)
(***************************************************************************)
\* (variant) the exec bit left as the copy made it
ChmodNothing(node) == node

chmod_exec(node) == [node EXCEPT !.exec = TRUE]

\* (variant) a failure of chmod_exec is ignored
ChmodExecIgnoreError(p) ==
    /\ pc[p] = "chmod"
    /\ \/ fs' = [fs EXCEPT ![OutBin(KeyOf(p))] = chmod_exec(@)]
       \/ UNCHANGED fs
    /\ pc' = [pc EXCEPT ![p] = "probe"]
    /\ UNCHANGED <<result, locks>>
    /\ UNCHANGED <<repoBin, now, metaDoc, req, idn, logTs, builds,
                   startValid, seen, doneAtCall, keyIn, keyOut,
                   expected_output, registry, localVars, copied, version_str>>

ChmodExec(p) ==
    /\ pc[p] = "chmod"
    /\ \/ /\ fs' = [fs EXCEPT ![OutBin(KeyOf(p))] = chmod_exec(@)]
          /\ pc' = [pc EXCEPT ![p] = "probe"]
          /\ UNCHANGED <<result, locks>>
       \/ /\ Fail(p, Err("Chmod"))
          /\ UNCHANGED fs
    /\ UNCHANGED <<repoBin, now, metaDoc, req, idn, logTs, builds,
                   startValid, seen,
                   doneAtCall, keyIn, keyOut,
                   expected_output, registry, localVars, copied, version_str>>

(***************************************************************************)
(* Line 256: let version_str = probe_version_string(&out_bin).ok(), the    *)
(* probe's failure turned into None.                                       *)
(***************************************************************************)
\* (variant) ? in place of .ok(): a failed probe is returned as an error
probe_fatal(p, probed) ==
    IF probed = None
    THEN Fail(p, Err("Probe")) /\ UNCHANGED version_str
    ELSE /\ version_str' = [version_str EXCEPT ![p] = probed]
         /\ pc' = [pc EXCEPT ![p] = "provenance"]
         /\ UNCHANGED <<result, locks>>

\* .ok(): Some(version) of a probe that answered, None of one that failed.
probe_ok(p, probed) ==
    /\ version_str' = [version_str EXCEPT ![p] = probed]
    /\ pc' = [pc EXCEPT ![p] = "provenance"]
    /\ UNCHANGED <<result, locks>>

ProbeVersion(p) ==
    /\ pc[p] = "probe"
    /\ \E probed \in {None, <<"v">>} : probe_ok(p, probed)
    /\ UNCHANGED <<repoBin, now, fs, metaDoc, req, idn, logTs, builds,
                   startValid, seen, doneAtCall, keyIn, keyOut,
                   expected_output, registry, localVars, copied>>

(***************************************************************************)
(* Lines 257..275: write_meta and the return of the published path.        *)
(***************************************************************************)
Meta(p, version_string, built_at) ==
    [service |-> "zcashd",
     source |-> "local-repo",
     refspec |-> RefspecOf(req[p]),
     commit |-> idn[p].commit,
     dirty |-> idn[p].dirty,
     worktree_hash |-> idn[p].worktree_hash,
     host |-> HostTriple,
     built_at |-> built_at,
     builder_schema |-> BuilderSchema,
     version_string |-> version_string]

WriteMeta(p) ==
    /\ pc[p] = "provenance"
    /\ \/ \E ts \in now..MaxTime :
             /\ now' = ts
             /\ metaDoc' = [metaDoc EXCEPT
                               ![KeyOf(p)] = {Meta(p, version_str[p], ts)}]
             /\ fs' = [create_dir_all(fs, cache_paths("zcashd", KeyOf(p)).meta)
                          EXCEPT ![MetaPath(KeyOf(p))] = File(TRUE, FALSE)]
             /\ Return(p, OutBin(KeyOf(p)))
       \/ /\ Fail(p, Err("Fs"))
          /\ UNCHANGED <<now, metaDoc, fs>>
    /\ UNCHANGED <<repoBin, req, idn, logTs, builds, startValid, seen,
                   doneAtCall, keyIn, keyOut,
                   expected_output, registry, localVars, copied, version_str>>

(***************************************************************************)
(* The process running a resolution dies; the operating system releases    *)
(* the lock it held.                                                       *)
(***************************************************************************)
\* (variant) a lock that outlives the process that took it
CrashKeepLock(p) ==
    /\ pc[p] \notin {"idle", "done", "error", "crashed"}
    /\ pc' = [pc EXCEPT ![p] = "crashed"]
    /\ UNCHANGED locks
    /\ UNCHANGED <<repoBin, now, fs, metaDoc, req, idn, logTs, result,
                   builds, startValid, seen, doneAtCall, keyIn, keyOut,
                   expected_output, registry, localVars, copied, version_str>>

Crash(p) ==
    /\ pc[p] \notin {"idle", "done", "error", "crashed"}
    /\ pc' = [pc EXCEPT ![p] = "crashed"]
    /\ locks' = DropLock(p)
    /\ UNCHANGED <<repoBin, now, fs, metaDoc, req, idn, logTs, result,
                   builds, startValid, seen,
                   doneAtCall, keyIn, keyOut,
                   expected_output, registry, localVars, copied, version_str>>

Next ==
    \E p \in Procs :
          \/ Identify(p)
          \/ CacheCheck(p)
          \/ Preflight(p)
          \/ AcquireLock(p)
          \/ Recheck(p)
          \/ BuildFinish(p)
          \/ Validate(p)
          \/ CopyWrite(p)
          \/ CopyRename(p)
          \/ ChmodExec(p)
          \/ ProbeVersion(p)
          \/ WriteMeta(p)
          \/ Crash(p)

Spec == Init /\ [][Next]_vars

(***************************************************************************)
(* Fair scheduling, with no process dying and the default expected        *)
(* output.  A resolution that can take a step of its code takes one: a     *)
(* thread is not suspended forever, and every build invocation returns.    *)
(* Waiting for the lock is a step only once the lock is free, and nothing  *)
(* obliges a lock failure to happen.                                       *)
(***************************************************************************)
LockWait(p) ==
    /\ pc[p] = "locking"
    /\ lock_acquired(p)
    /\ UNCHANGED <<repoBin, now, metaDoc, req, idn, logTs, builds,
                   startValid, seen, doneAtCall, keyIn, keyOut,
                   expected_output, registry, localVars, copied, version_str>>

Progress(p) ==
    \/ CacheCheck(p)
    \/ Preflight(p)
    \/ LockWait(p)
    \/ Recheck(p)
    \/ BuildFinish(p)
    \/ Validate(p)
    \/ CopyWrite(p)
    \/ CopyRename(p)
    \/ ChmodExec(p)
    \/ ProbeVersion(p)
    \/ WriteMeta(p)

InitFair ==
    /\ InitCache
    /\ NoLocal
    /\ expected_output = None
    /\ registry = <<"builtins">>
    /\ keyIn = <<NoKeyRequest, NoKeyRequest>>
    /\ keyOut = <<None, None>>

NextFair ==
    \E p \in Procs :
          \/ Identify(p)
          \/ CacheCheck(p)
          \/ Preflight(p)
          \/ AcquireLock(p)
          \/ Recheck(p)
          \/ BuildFinish(p)
          \/ Validate(p)
          \/ CopyWrite(p)
          \/ CopyRename(p)
          \/ ChmodExec(p)
          \/ ProbeVersion(p)
          \/ WriteMeta(p)

SpecFair ==
    /\ InitFair
    /\ [][NextFair]_vars
    /\ \A p \in Procs : WF_vars(Progress(p))

(***************************************************************************)
(* Fair scheduling as above, with the processes that hold a lock free to   *)
(* die at any point between taking the lock and returning.                 *)
(***************************************************************************)
HolderCrash(p) == Holds(p) /\ Crash(p)

NextCrash ==
    \E p \in Procs :
          \/ Identify(p)
          \/ CacheCheck(p)
          \/ Preflight(p)
          \/ AcquireLock(p)
          \/ Recheck(p)
          \/ BuildFinish(p)
          \/ Validate(p)
          \/ CopyWrite(p)
          \/ CopyRename(p)
          \/ ChmodExec(p)
          \/ ProbeVersion(p)
          \/ WriteMeta(p)
          \/ HolderCrash(p)

SpecCrash ==
    /\ InitFair
    /\ [][NextCrash]_vars
    /\ \A p \in Procs : WF_vars(Progress(p))

(***************************************************************************)
(* The resolver constructed with any registry: new, with_registry of an    *)
(* empty registry, with_registry of the builtins.                          *)
(***************************************************************************)
InitRegistry ==
    /\ InitCache
    /\ NoLocal
    /\ expected_output = None
    /\ registry \in Registries
    /\ keyIn = <<NoKeyRequest, NoKeyRequest>>
    /\ keyOut = <<None, None>>

SpecRegistry == InitRegistry /\ [][NextFair]_vars

(***************************************************************************)
(* Resolution of LocalPath sources: resolve's arm for the source, and      *)
(* resolve_local_path applied to it.                                       *)
(***************************************************************************)
InitLocal ==
    /\ InitCache
    /\ expected_output = None
    /\ registry = <<"builtins">>
    /\ keyIn = <<NoKeyRequest, NoKeyRequest>>
    /\ keyOut = <<None, None>>
    /\ local_fs \in [LocalPaths -> Metadatas]
    /\ local_src = None
    /\ local_result = Pending

\* resolve(&ArtifactSource::LocalPath(path))
ResolveLocal(path) ==
    /\ local_src' = <<path>>
    /\ local_result' = Panic
    /\ UNCHANGED <<repoBin, now, fs, metaDoc, locks, pc, req, idn, logTs, result,
                   builds, startValid, seen, doneAtCall, keyIn, keyOut,
                   expected_output, registry, copied, version_str, local_fs>>

\* resolve_local_path(&path)
ResolveLocalPath(path) ==
    /\ local_src' = <<path>>
    /\ local_result' = resolve_local_path(path, local_fs[path])
    /\ UNCHANGED <<repoBin, now, fs, metaDoc, locks, pc, req, idn, logTs, result,
                   builds, startValid, seen, doneAtCall, keyIn, keyOut,
                   expected_output, registry, copied, version_str, local_fs>>

NextLocal ==
    \E path \in LocalPaths :
          \/ ResolveLocal(path)
          \/ ResolveLocalPath(path)

SpecLocal == InitLocal /\ [][NextLocal]_vars

NextKey == DeriveKeys

SpecKey == InitKey /\ [][NextKey]_vars

(***************************************************************************)
(* Vocabulary of the properties.                                           *)
(***************************************************************************)
Returned(p) == pc[p] \in {"done", "error"}

\* The resolution computed its cache key (line 208).
HasKey(p) == idn[p] # NoIdn /\ result[p].err # "DirtyWorktree"

ResolutionsOf(k) == {p \in Procs : HasKey(p) /\ KeyOf(p) = k}

RECURSIVE SumBuilds(_)
SumBuilds(S) ==
    IF S = {} THEN 0
    ELSE LET p == CHOOSE x \in S : TRUE IN builds[p] + SumBuilds(S \ {p})

TotalBuilds(k) == SumBuilds(ResolutionsOf(k))

\* Errors the environment causes: a filesystem, lock or chmod failure,
\* missing build tools, a failing build script or a build without output.
EnvErrors ==
    {"Fs", "Lock", "Chmod", "PreflightMissingTools", "ScriptFailed", "MissingOutput"}

(***************************************************************************)
(* C1  Cache-hit short-circuit.  A resolution whose key has an out/zcashd  *)
(* that looks executable when the key is computed never invokes the build, *)
(* and, returning without a filesystem error, returns that out/zcashd.     *)
(***************************************************************************)
CacheHitShortCircuit ==
    \A p \in Procs :
        startValid[p] =>
            /\ builds[p] = 0
            /\ Returned(p) /\ result[p].err # "Fs"
                  => result[p] = Ok(OutBin(KeyOf(p)))

CacheHitWitness ==
    \E p \in Procs :
        /\ startValid[p]
        /\ pc[p] = "done"
        /\ seen[p] = "pre-hit"
        /\ builds[p] = 0
        /\ result[p] = Ok(OutBin(KeyOf(p)))

(***************************************************************************)
(* C2  Mutual exclusion.  Of the resolutions of one key, starting from an  *)
(* empty cache and with none of them crashed or failed by the environment  *)
(* (tools present, build script succeeding with its output, no filesystem  *)
(* or lock failure): at most one has invoked the build; each that returned *)
(* returned Ok with out/zcashd of the key, which looks executable; and     *)
(* once all have returned, exactly one build was invoked in total.         *)
(***************************************************************************)
CleanRun(k) ==
    \A p \in ResolutionsOf(k) :
        pc[p] # "crashed" /\ result[p].err \notin EnvErrors

MutualExclusion ==
    \A k \in AllKeys :
        CleanRun(k) =>
            /\ TotalBuilds(k) <= 1
            /\ \A p \in ResolutionsOf(k) :
                  Returned(p) =>
                      /\ result[p] = Ok(OutBin(k))
                      /\ looks_executable(fs[OutBin(k)])
            /\ (ResolutionsOf(k) # {} /\ \A p \in ResolutionsOf(k) : Returned(p))
                  => TotalBuilds(k) = 1

\* Two resolutions of one key were serialized by the lock: one built, the
\* other found the result in its post-lock re-check.
MutualExclusionWitness ==
    \E p, q \in Procs :
        /\ p # q /\ HasKey(p) /\ HasKey(q) /\ KeyOf(p) = KeyOf(q)
        /\ CleanRun(KeyOf(p))
        /\ pc[p] = "done" /\ pc[q] = "done"
        /\ builds[p] = 1 /\ builds[q] = 0
        /\ seen[q] = "post-hit"
        /\ result[p] = result[q]

(***************************************************************************)
(* C3  Rebuild on miss, as stated: every resolution that has returned,     *)
(* whose pre-lock check found out/zcashd absent or not executable and      *)
(* which met no environment failure before the build, invoked the build    *)
(* exactly once.                                                           *)
(***************************************************************************)
RebuildOnEveryMiss ==
    \A p \in Procs :
        /\ Returned(p)
        /\ seen[p] \in {"pre-miss", "post-hit", "post-miss"}
        /\ result[p].err \notin {"Fs", "Lock", "PreflightMissingTools"}
        => builds[p] = 1

(***************************************************************************)
(* C3, amended.  A resolution invokes the build at most once, and exactly  *)
(* once if and only if its post-lock re-check found out/zcashd absent or   *)
(* not executable; one whose pre-lock check missed and whose post-lock     *)
(* re-check hit (or that failed before the re-check) invokes it not at all.*)
(***************************************************************************)
RebuildOnPostLockMiss ==
    \A p \in Procs :
        /\ builds[p] <= 1
        /\ builds[p] = 1 <=> seen[p] = "post-miss"

\* A failed build was not retried by the resolution.
RebuildOnMissWitness ==
    \E p \in Procs :
        /\ seen[p] = "post-miss"
        /\ pc[p] = "error"
        /\ result[p].err = "ScriptFailed"
        /\ builds[p] = 1

(***************************************************************************)
(* C4  Dirty policy enforcement.  A resolution with policy RequireClean    *)
(* that read the worktree as dirty has returned the dirty-worktree error   *)
(* and invoked no build, whatever the cache holds.                         *)
(***************************************************************************)
DirtyPolicyEnforced ==
    \A p \in Procs :
        req[p].policy.tag = "RequireClean" /\ idn[p].dirty =>
            /\ pc[p] = "error"
            /\ result[p] = Err("DirtyWorktree")
            /\ builds[p] = 0

\* The refusal happens although the commit's clean key is cached.
DirtyPolicyWitness ==
    \E p \in Procs :
        /\ req[p].policy.tag = "RequireClean" /\ idn[p].dirty
        /\ result[p] = Err("DirtyWorktree")
        /\ looks_executable(fs[OutBin(build_key(idn[p].commit, None, HostTriple))])

(***************************************************************************)
(* C5  A resolution that returns the dirty-worktree error leaves the       *)
(* cache as it was: the step that refuses creates no directory and no      *)
(* file (lock files included), writes no provenance and takes no lock.     *)
(***************************************************************************)
DirtyRefusalLeavesCache ==
    [][\A p \in Procs :
          pc[p] = "idle" /\ result'[p] = Err("DirtyWorktree")
              => fs' = fs /\ locks' = locks /\ metaDoc' = metaDoc]_vars

\* Refused after a clean build of the commit: the clean key has its
\* directories, and nothing exists under any key with a worktree hash.
DirtyRefusalWitness ==
    \E p \in Procs :
        /\ result[p] = Err("DirtyWorktree")
        /\ \A q \in Procs : ~Holds(q)
        /\ LET clean == build_key(idn[p].commit, None, HostTriple)
           IN /\ fs[cache_paths("zcashd", clean).out] = Dir
              /\ \A k \in AllKeys \ {clean} :
                    \A path \in KeyPaths(k) : fs[path] = Absent

(***************************************************************************)
(* C6  Dirty builds.  The worktree hash of an identity is present exactly  *)
(* when the worktree was read dirty and the policy allows dirty builds; a  *)
(* dirty resolution's key differs from the clean key of its commit; every  *)
(* provenance document has a worktree hash exactly when it says dirty, and *)
(* lies under the key of its own identity; and a dirty resolution that     *)
(* built and returned Ok left provenance with dirty = true and its hash.   *)
(***************************************************************************)
DirtyBuildIdentity ==
    /\ \A p \in Procs :
          idn[p] # NoIdn =>
              (idn[p].worktree_hash # None
                  <=> idn[p].dirty /\ PolicyFlags(req[p].policy).allow_dirty)
    /\ \A p \in Procs :
          HasKey(p) /\ idn[p].dirty
              => KeyOf(p) # build_key(idn[p].commit, None, HostTriple)
    /\ \A k \in AllKeys : \A m \in metaDoc[k] :
          /\ m.worktree_hash # None <=> m.dirty
          /\ build_key(m.commit, m.worktree_hash, m.host) = k
    /\ \A p \in Procs :
          pc[p] = "done" /\ builds[p] = 1 /\ idn[p].dirty
              => \E m \in metaDoc[KeyOf(p)] :
                    m.dirty /\ m.worktree_hash = idn[p].worktree_hash

DirtyBuildWitness ==
    \E p \in Procs :
        /\ req[p].policy = [tag |-> "AllowDirty", hash_untracked |-> FALSE]
        /\ idn[p].dirty
        /\ pc[p] = "done" /\ builds[p] = 1
        /\ KeyOf(p) # build_key(idn[p].commit, None, HostTriple)
        /\ \E m \in metaDoc[KeyOf(p)] : m.dirty /\ m.worktree_hash # None

(***************************************************************************)
(* C7  Atomic publish.  After every step, a crash included, out/zcashd of  *)
(* every key is absent or a completely written file, and a step never      *)
(* changes an out/zcashd that looks executable.                            *)
(***************************************************************************)
AtomicPublish ==
    [][\A k \in AllKeys :
          /\ fs'[OutBin(k)].kind = "file" => fs'[OutBin(k)].complete
          /\ looks_executable(fs[OutBin(k)]) => fs'[OutBin(k)] = fs[OutBin(k)]]_vars

\* A publisher died between the temp-file write and the rename: the
\* half-written temp file lies beside an out/zcashd that is as it was.
AtomicPublishWitness ==
    \E p \in Procs :
        /\ pc[p] = "crashed" /\ HasKey(p) /\ seen[p] = "post-miss"
        /\ \A q \in Procs : pc[q] # "renaming"
        /\ fs[TmpBin(KeyOf(p))].kind = "file"
        /\ ~fs[TmpBin(KeyOf(p))].complete
        /\ fs[OutBin(KeyOf(p))] = File(TRUE, FALSE)

(***************************************************************************)
(* C8  Sequential reuse.  A resolution called after another of the same    *)
(* key has returned Ok from a build invokes no build, and, returning       *)
(* without a filesystem error, returns the same path.                      *)
(***************************************************************************)
SequentialReuse ==
    \A p, q \in Procs :
        /\ p \in doneAtCall[q]
        /\ builds[p] = 1
        /\ HasKey(q) /\ KeyOf(q) = KeyOf(p)
        => /\ builds[q] = 0
           /\ Returned(q) /\ result[q].err # "Fs" => result[q] = result[p]

SequentialReuseWitness ==
    \E p, q \in Procs :
        /\ p \in doneAtCall[q]
        /\ builds[p] = 1
        /\ HasKey(q) /\ KeyOf(q) = KeyOf(p)
        /\ pc[q] = "done"
        /\ builds[q] = 0
        /\ result[q] = result[p]
        /\ TotalBuilds(KeyOf(p)) = 1

(***************************************************************************)
(* C9  Key discrimination, as stated: the keys derived for two requests    *)
(* are equal if and only if the requests agree in service, commit,         *)
(* worktree hash (presence and value), platform and schema version.        *)
(***************************************************************************)
IdentityTuple(x) ==
    <<x.service, x.commit, x.worktree_hash, x.platform, BuilderSchema>>

KeyDiscrimination ==
    keyOut # <<None, None>> =>
        (keyOut[1] = keyOut[2]
            <=> IdentityTuple(keyIn[1]) = IdentityTuple(keyIn[2]))

(***************************************************************************)
(* C10  Different keys never block each other: a lock that a resolution    *)
(* waits for is held, if at all, by a resolution of the same key.          *)
(***************************************************************************)
DifferentKeysNeverBlock ==
    \A p \in Procs :
        pc[p] = "locking" =>
            \A h \in locks[LockPath(KeyOf(p))] : KeyOf(h) = KeyOf(p)

\* Two resolutions of different keys are in their builds at the same time.
DifferentKeysWitness ==
    \E p, q \in Procs :
        /\ pc[p] = "building" /\ pc[q] = "building"
        /\ KeyOf(p) # KeyOf(q)
        /\ Holds(p) /\ Holds(q)

(***************************************************************************)
(* C11  Lock release on every exit path: a resolution that has returned,   *)
(* with Ok or with an error from any step, holds no lock.                  *)
(***************************************************************************)
LockReleasedOnExit ==
    \A p \in Procs : Returned(p) => ~Holds(p)

\* A resolution took the lock, built, failed after that and returned: the
\* lock of its key is free, and its lock file is still there.
LockReleasedWitness ==
    \E p \in Procs :
        /\ pc[p] = "error"
        /\ seen[p] = "post-miss"
        /\ result[p].err \in {"ScriptFailed", "MissingOutput", "Chmod"}
        /\ fs[LockPath(KeyOf(p))].kind = "file"
        /\ locks[LockPath(KeyOf(p))] = {}

HoldsKey(p, k) == HasKey(p) /\ KeyOf(p) = k /\ p \in locks[LockPath(k)]

LockDiscipline ==
    [][/\ \A l \in LockPaths : Cardinality(locks'[l]) <= 1
       /\ \A p \in Procs :
             /\ builds'[p] # builds[p]
                   => HoldsKey(p, KeyOf(p)) /\ seen'[p] = "post-miss"
             /\ (\E l \in LockPaths : p \in locks'[l] /\ p \notin locks[l])
                   => seen[p] = "pre-miss"
             /\ seen'[p] = "pre-hit" => pc'[p] = "done" /\ ~Holds(p)'
       /\ \A k \in AllKeys :
             fs'[OutBin(k)] # fs[OutBin(k)] \/ metaDoc'[k] # metaDoc[k]
                 => \E p \in Procs : HoldsKey(p, k) /\ seen[p] = "post-miss"]_vars

\* One resolution is building under its key's lock while another of the
\* same key, which missed before the lock, waits for it.
LockDisciplineWitness ==
    \E p, q \in Procs :
        /\ p # q /\ HasKey(p) /\ HasKey(q) /\ KeyOf(p) = KeyOf(q)
        /\ pc[p] = "building" /\ locks[LockPath(KeyOf(p))] = {p}
        /\ pc[q] = "locking" /\ seen[q] = "pre-miss"

(***************************************************************************)
(* C14  As stated: a resolution that ended in the missing-tools error has  *)
(* not read out/zcashd, holds no lock and invoked no build; and, when it   *)
(* is the only resolution made so far, nothing exists under the cache      *)
(* root.                                                                   *)
(***************************************************************************)
PreflightBeforeCache ==
    \A p \in Procs :
        result[p].err = "PreflightMissingTools" =>
            /\ seen[p] = "nothing"
            /\ ~Holds(p)
            /\ builds[p] = 0
            /\ (\A q \in Procs \ {p} : pc[q] = "idle")
                  => \A path \in AllPaths : fs[path] = Absent

(***************************************************************************)
(* C15  Build failure handling.  A resolution whose result is the build    *)
(* failure has returned, carries the path of the log file of its attempt,  *)
(* which exists, and invoked the build exactly once; the step that returns *)
(* the failure changes nothing under the cache root and no provenance, and *)
(* leaves out/zcashd of the key not looking executable.                    *)
(***************************************************************************)
BuildFailureHandling ==
    [][\A p \in Procs :
          result'[p].err = "ScriptFailed" =>
              /\ pc'[p] = "error"
              /\ builds'[p] = 1
              /\ result'[p].log = LogPath(KeyOf(p), logTs[p])
              /\ fs'[result'[p].log].kind = "file"
              /\ result[p].err # "ScriptFailed" =>
                    /\ fs' = fs /\ metaDoc' = metaDoc
                    /\ ~looks_executable(fs'[OutBin(KeyOf(p))])]_vars

\* After a failed build a later resolution of the same key missed again and
\* is building; the first one's log path is still a file.
BuildFailureWitness ==
    \E p, q \in Procs :
        /\ p # q /\ HasKey(q) /\ KeyOf(p) = KeyOf(q)
        /\ result[p] = ErrLog("ScriptFailed", LogPath(KeyOf(p), logTs[p]))
        /\ builds[p] = 1
        /\ metaDoc[KeyOf(p)] = {}
        /\ pc[q] = "building" /\ seen[q] = "post-miss"

(***************************************************************************)
(* C16  Missing output.  After a build that reported success, a resolution *)
(* goes on to publish only if the expected output looks executable; else   *)
(* it returns the missing-output error naming repo/<expected_output>, the  *)
(* caller's path or else src/zcashd, and that step leaves the cache root,  *)
(* out/zcashd included, and the provenance as they were.                   *)
(***************************************************************************)
MissingOutputHandling ==
    [][\A p \in Procs :
          /\ pc[p] = "validating" /\ pc'[p] = "copying"
                => looks_executable(repoBin)
          /\ pc[p] = "validating" /\ pc'[p] = "error" /\ result'[p].err # "Fs"
                => /\ ~looks_executable(repoBin)
                   /\ result'[p].err = "MissingOutput"
                   /\ result'[p].path =
                         IF expected_output = None
                         THEN <<"repo", "src/zcashd">>
                         ELSE <<"repo", expected_output[1]>>
                   /\ fs' = fs /\ metaDoc' = metaDoc /\ copied' = copied]_vars

\* The caller named the expected output, the build left nothing executable
\* there: the error names that path, and the key has no out/zcashd.
MissingOutputWitness ==
    \E p \in Procs :
        /\ expected_output # None
        /\ pc[p] = "error"
        /\ result[p].err = "MissingOutput"
        /\ result[p].path = <<"repo", expected_output[1]>>
        /\ fs[OutBin(KeyOf(p))] = Absent
        /\ metaDoc[KeyOf(p)] = {}

(***************************************************************************)
(* C17  Provenance is written only after a build and a publish: a step     *)
(* that changes the provenance document of a key, meta/ or META.json is    *)
(* the last step of a resolution of that key that invoked the build after  *)
(* a post-lock miss, and is taken with out/zcashd of the key completely    *)
(* written and looking executable.  No cache hit and no resolution that    *)
(* fails before its publish takes such a step.                             *)
(***************************************************************************)
ProvenanceOnlyAfterPublish ==
    [][\A k \in AllKeys :
          \/ metaDoc'[k] # metaDoc[k]
          \/ fs'[MetaPath(k)] # fs[MetaPath(k)]
          \/ fs'[cache_paths("zcashd", k).meta] # fs[cache_paths("zcashd", k).meta]
          => \E p \in Procs :
                /\ HasKey(p) /\ KeyOf(p) = k
                /\ pc[p] = "provenance" /\ pc'[p] = "done"
                /\ seen[p] = "post-miss" /\ builds[p] = 1
                /\ fs[OutBin(k)].complete
                /\ looks_executable(fs[OutBin(k)])]_vars

\* One resolution built and wrote provenance; a later one of the same key
\* returned by a pre-lock hit, and the document is the builder's.
ProvenanceWitness ==
    \E p, q \in Procs :
        /\ p # q /\ HasKey(q) /\ KeyOf(p) = KeyOf(q)
        /\ pc[p] = "done" /\ builds[p] = 1
        /\ pc[q] = "done" /\ seen[q] = "pre-hit"
        /\ fs[MetaPath(KeyOf(p))].kind = "file"
        /\ \E m \in metaDoc[KeyOf(p)] : m.refspec = RefspecOf(req[p])

(***************************************************************************)
(* C18  A failing version probe is not fatal: the probe step never ends a  *)
(* resolution in an error; after it only a filesystem failure of           *)
(* write_meta does; and the step that writes the provenance returns Ok     *)
(* with the published path and leaves a document whose version string is   *)
(* what the probe gave, null after a failed probe.                         *)
(***************************************************************************)
ProbeFailureNotFatal ==
    [][\A p \in Procs :
          /\ pc[p] = "probe" => pc'[p] # "error"
          /\ pc[p] = "provenance" /\ pc'[p] = "error" => result'[p].err = "Fs"
          /\ pc[p] = "provenance" /\ pc'[p] = "done" =>
                /\ result'[p] = Ok(OutBin(KeyOf(p)))
                /\ \E m \in metaDoc'[KeyOf(p)] :
                      m.version_string = version_str[p]]_vars

ProbeFailureWitness ==
    \E p \in Procs :
        /\ pc[p] = "done" /\ builds[p] = 1
        /\ version_str[p] = None
        /\ result[p] = Ok(OutBin(KeyOf(p)))
        /\ looks_executable(fs[OutBin(KeyOf(p))])
        /\ \E m \in metaDoc[KeyOf(p)] : m.version_string = None

(***************************************************************************)
(* C19  Log uniqueness, as stated: no two build attempts of one key use    *)
(* the same log file.                                                      *)
(***************************************************************************)
LogUniqueness ==
    \A p, q \in Procs :
        /\ p # q
        /\ builds[p] = 1 /\ builds[q] = 1
        /\ KeyOf(p) = KeyOf(q)
        => LogPath(KeyOf(p), logTs[p]) # LogPath(KeyOf(q), logTs[q])

(***************************************************************************)
(* C20  Termination: under fair scheduling, with every build invocation    *)
(* returning and no process dying, every started resolution eventually     *)
(* has returned Ok or an error; waiting for a lock has no timeout and      *)
(* ends only when the lock is free (or with a lock failure).               *)
(***************************************************************************)
Termination ==
    \A p \in Procs : pc[p] # "idle" ~> Returned(p)

\* Two resolutions of one key came through its lock one after the other:
\* the first failed its build, the second built and returned Ok.
TerminationWitness ==
    \E p, q \in Procs :
        /\ p # q /\ HasKey(p) /\ HasKey(q) /\ KeyOf(p) = KeyOf(q)
        /\ pc[q] = "error" /\ result[q].err = "ScriptFailed"
        /\ pc[p] = "done" /\ builds[p] = 1
        /\ \A l \in LockPaths : locks[l] = {}

(***************************************************************************)
(* C21  Crash of the lock holder.  A dead process holds no lock; the step  *)
(* in which a lock holder dies frees its lock and changes nothing under    *)
(* the cache root; a resolution waiting for a lock eventually has it (or   *)
(* a lock failure); and having it, a resolution that re-checks             *)
(* out/zcashd without a filesystem error builds exactly if out/zcashd      *)
(* does not look executable.                                               *)
(***************************************************************************)
CrashedHolderReleases ==
    /\ [](\A p \in Procs : pc[p] = "crashed" => ~Holds(p))
    /\ [][\A p \in Procs :
            /\ pc'[p] = "crashed" /\ pc[p] # "crashed"
                  => locks' = DropLock(p) /\ fs' = fs
            /\ pc[p] = "recheck" /\ pc'[p] \notin {"recheck", "crashed"}
                  /\ result'[p].err # "Fs"
                  => (pc'[p] = "building"
                        <=> ~looks_executable(fs[OutBin(KeyOf(p))]))]_vars
    /\ \A p \in Procs :
          pc[p] = "locking" ~> pc[p] \in {"recheck", "error"}

\* The holder died in the middle of its publish, its half-written temp
\* file behind it; the next resolution of the key has the lock and builds.
CrashedHolderWitness ==
    \E p, q \in Procs :
        /\ p # q /\ HasKey(p) /\ HasKey(q) /\ KeyOf(p) = KeyOf(q)
        /\ pc[p] = "crashed" /\ builds[p] = 1
        /\ fs[TmpBin(KeyOf(p))].kind = "file"
        /\ pc[q] = "building" /\ seen[q] = "post-miss"
        /\ locks[LockPath(KeyOf(q))] = {q}

(***************************************************************************)
(* C22  As stated: a Build resolution made with allow_build false, or with *)
(* no build recipe registered for zcashd, has returned a                   *)
(* capability-disabled error without reading the git state, has taken no   *)
(* lock and invoked no build; and, when it is the only resolution made so  *)
(* far, nothing exists under the cache root.                               *)
(***************************************************************************)
BuildDisabledFailsFast ==
    \A p \in Procs :
        pc[p] # "idle" /\ (~req[p].allow_build \/ ~has_build_recipe(registry)) =>
            /\ pc[p] = "error"
            /\ result[p].err \in {"DisabledFeature", "DisabledRuntime"}
            /\ idn[p] = NoIdn
            /\ ~Holds(p)
            /\ builds[p] = 0
            /\ (\A q \in Procs \ {p} : pc[q] = "idle")
                  => \A path \in AllPaths : fs[path] = Absent

(***************************************************************************)
(* C23  As stated: a LocalPath source that has been resolved gave exactly  *)
(* the given path when the path is a regular file with an exec bit set,    *)
(* the not-found input error when nothing is at the path or it is not a    *)
(* regular file, the not-executable input error when it is a regular file  *)
(* without exec bit; nothing exists under the cache root, no lock is held  *)
(* and no build has been invoked.                                          *)
(***************************************************************************)
LocalPathResolution ==
    local_src # None =>
        LET path == local_src[1]
            md == local_fs[path]
        IN /\ md.found /\ md.is_file /\ BitAnd(md.mode, ExecBits) # 0
                 => local_result = Ok(path)
           /\ ~md.found \/ ~md.is_file
                 => local_result = ErrPath("NotFound", path)
           /\ md.found /\ md.is_file /\ BitAnd(md.mode, ExecBits) = 0
                 => local_result = ErrPath("NotExecutable", path)
           /\ \A p \in AllPaths : fs[p] = Absent
           /\ \A l \in LockPaths : locks[l] = {}
           /\ \A p \in Procs : builds[p] = 0

=============================================================================
